---- MODULE Spec2Model ----
(* Verification model of sasquatch (tmacro/s4):                            *)
(*   grammar/verb.py    - BaseVerb argument resolution, verb_builder       *)
(*   action/listing.py  - ListAction, ListVersionAction,                   *)
(*                        ListReplicationAction generators                 *)
(*   s3/api.py          - the backend calls the actions use                *)
EXTENDS Integers, Sequences, FiniteSets, TLC

VARIABLES
    \* ---- one BaseVerb construction (grammar/verb.py) ----
    cls,        \* the verb class: _hard_required, _soft_required, _optional, _positional_order
    args,       \* positional arguments of the invocation
    kwargs,     \* explicit keyword arguments, a dict in insertion order
    vpc,        \* "call" before __init__ runs, "done" after
    inst,       \* the instance __init__ leaves behind
    err,        \* the exception __init__ raised
    \* ---- the verb registry (grammar/verb.py) ----
    VERBS,      \* symbol -> registered verb class
    bcall,      \* <<configuration>> of the last verb_builder call, <<>> before any
    berr,       \* exception the last verb_builder call raised
    \* ---- one listing pipeline (action/listing.py) ----
    laction,    \* "ls", "lv" or "lr"
    bucket,     \* the bound bucket parameter, or None
    pages,      \* the pages the backend returns for the call
    repl,       \* backend state: bucket name -> replication configuration
    lstat,      \* "running", "stopped", "exhausted", "error"
    lerr,       \* exception that ended the generator
    fetched,    \* number of pages retrieved from the backend so far
    pos,        \* records of the current page already consumed
    out,        \* records yielded to the consumer so far
    calls,      \* backend calls issued so far, side queries included
    lastPage    \* index of the page holding the last record pulled

verbVars == <<cls, args, kwargs, vpc, inst, err>>
builderVars == <<VERBS, bcall, berr>>
listVars == <<laction, bucket, pages, repl, lstat, lerr, fetched, pos, out, calls, lastPage>>
vars == <<verbVars, builderVars, listVars>>

None == "None"
Absent == "absent"                  \* a key a mapping does not carry

\* ------------------------------------------------------------------ bounds
MaxParams == 2      \* total declared parameters of a verb class
MaxArgs == 2        \* positional slots / positional arguments
MaxPages == 3       \* pages the backend returns
MaxRecs == 2        \* records per page

Names == {"a", "b"}                 \* parameter names a verb declares
Keys == Names \cup {"strict"}       \* keyword names an invocation supplies
Vals == {"v1", "v2"}                \* argument values (parsed nodes)
CTX == "ctx"                        \* the invocation's context handle

SeqsUpTo(S, n) == UNION {[1..k -> S] : k \in 0..n}

Min(x, y) == IF x < y THEN x ELSE y

\* ------------------------------------------------------- python built-ins
\* x in list
InList(x, l) == \E i \in DOMAIN l : l[i] = x

\* list.remove(x): drops the first occurrence only
remove(l, x) ==
    LET i == CHOOSE j \in DOMAIN l : l[j] = x /\ \A k \in 1..(j-1) : l[k] # x
    IN  SubSeq(l, 1, i-1) \o SubSeq(l, i+1, Len(l))

\* a dict is the sequence of its <<key, value>> items in insertion order
keys(d) == [i \in DOMAIN d |-> d[i][1]]

HasKey(d, k) == \E i \in DOMAIN d : d[i][1] = k

GetItem(d, k) == d[CHOOSE i \in DOMAIN d : d[i][1] = k][2]

\* d[k] = v: an existing key keeps its place, a new key goes last
SetItem(d, k, v) ==
    IF HasKey(d, k)
    THEN [i \in DOMAIN d |-> IF d[i][1] = k THEN <<k, v>> ELSE d[i]]
    ELSE Append(d, <<k, v>>)

DelKey(d, k) == SelectSeq(d, LAMBDA it : it[1] # k)

\* dict.update(e): the items of e are written over d
update(d, e) ==
    LET RECURSIVE put(_, _)
        put(acc, i) == IF i > Len(e) THEN acc
                       ELSE put(SetItem(acc, e[i][1], e[i][2]), i + 1)
    IN  put(d, 1)

zip(xs, ys) == [i \in 1..Min(Len(xs), Len(ys)) |-> <<xs[i], ys[i]>>]

\* value.context: the context a parsed value carries
context(v) == [of |-> v]

\* truth value of an argument value: plain objects are truthy
Truthy(v) == v \in Vals

\* ------------------------------------------------------------- BaseVerb
NoErr == [type |-> None]
\* _positional_order is None (NoOrder) or a list l, held as {l}
NoOrder == {}
NoInst == [ok |-> FALSE]

\* __init__ lines 34-35: the effective positional order
positional_order(c) ==
    IF c._positional_order = NoOrder THEN c._soft_required
    ELSE CHOOSE o \in c._positional_order : TRUE

\* _check_args: the exception it raises, or NoErr
_check_args(c, order, as) ==
    LET takes == Len(order)
        given == Len(as)
    IN  IF given > takes
        THEN [type |-> "TooManyArgumentsError", takes |-> takes, given |-> given,
              ctx |-> context(as[Len(as)])]
        ELSE NoErr

\* _resolve_positional: {k: v for k, v in zip(order[position:], args)}
_resolve_positional(order, as, position) ==
    update(<<>>, zip(SubSeq(order, position + 1, Len(order)), as))

\* the for loop of _check_kwargs (lines 60-68)
scan_keys(kw, required0, optional0) ==
    LET RECURSIVE loop(_, _, _, _)
        loop(i, required, optional, last_key) ==
            IF i > Len(kw)
            THEN [extra |-> None, required |-> required, last_key |-> last_key]
            ELSE LET key == kw[i][1] IN
                 IF InList(key, required)
                 THEN loop(i + 1, remove(required, key), optional, key)
                 ELSE IF InList(key, optional)
                 THEN loop(i + 1, required, remove(optional, key), key)
                 ELSE [extra |-> key, required |-> required, last_key |-> last_key]
    IN  loop(1, required0, optional0, None)

\* the binding of **kw to the signature (self, strict=False, **kwargs)
strict_of(kw) == IF HasKey(kw, "strict") THEN Truthy(GetItem(kw, "strict")) ELSE FALSE

\* (variant: names the last name left instead of the first)
last_left(required) == required[Len(required)]

\* keyword=required[0], line 75
first_left(required) == required[1]

\* _check_kwargs called as self._check_kwargs(**kw): the exception, or NoErr
_check_kwargs(c, ctx, kw) ==
    LET strict == strict_of(kw)
        rest == DelKey(kw, "strict")
        required == c._hard_required \o (IF strict THEN c._soft_required ELSE <<>>)
        optional == c._optional \o (IF strict THEN <<>> ELSE c._soft_required)
        s == scan_keys(rest, required, optional)
    IN  IF s.extra # None
        THEN [type |-> "ExtraKeywordError", keyword |-> s.extra,
              ctx |-> context(GetItem(rest, s.extra))]
        ELSE IF s.required # <<>>
        THEN [type |-> "MissingKeywordError", keyword |-> first_left(s.required),
              ctx |-> IF s.last_key # None
                      THEN context(GetItem(rest, s.last_key)) ELSE [of |-> ctx]]
        ELSE NoErr

\* (variant: the explicit keywords are written over the positional bindings)
merge_keywords_on_top(kw, resolved) == update(resolved, kw)

\* kwargs.update(self._resolve_positional(*args)), line 37
merge_positional(kw, resolved) == update(kw, resolved)

\* BaseVerb.__init__: <<instance, exception>>
__init__(c, as, ctx, kw) ==
    LET order == positional_order(c)
        e1 == _check_args(c, order, as)
        merged == merge_positional(kw, _resolve_positional(order, as, 0))
        e2 == _check_kwargs(c, ctx, merged)
    IN  IF e1 # NoErr THEN <<NoInst, e1>>
        ELSE IF e2 # NoErr THEN <<NoInst, e2>>
        ELSE <<[ok |-> TRUE, _context |-> ctx, _positional_order |-> order,
                _kwargs |-> merged], NoErr>>

\* attributes an instance of a verb class has
BaseVerbAttrs ==
    {"_symbol", "_desc", "_action", "_hard_required", "_soft_required", "_optional",
     "_positional_order", "_context", "_kwargs", "_check_args", "_check_kwargs",
     "_resolve_positional", "has", "needs", "wants", "missing"}

has(self) == keys(self._kwargs)

needs(c) == c._hard_required \o c._soft_required

\* wants reads self._needs
wants(c) ==
    IF "_needs" \in BaseVerbAttrs
    THEN [raised |-> None, value |-> needs(c) \o c._optional]
    ELSE [raised |-> "AttributeError", value |-> <<>>]

\* (variant: needs is returned unfiltered)
missing_unfiltered(c, self) == needs(c)

missing(c, self) == SelectSeq(needs(c), LAMBDA k : ~InList(k, has(self)))

\* -------------------------------------------------- inputs of a construction
ParamLists == SeqsUpTo(Names, MaxParams)

VerbClasses ==
    {c \in [_hard_required : ParamLists, _soft_required : ParamLists,
            _optional : ParamLists,
            _positional_order : {NoOrder} \cup {{o} : o \in SeqsUpTo(Names, MaxArgs)}] :
        Len(c._hard_required) + Len(c._soft_required) + Len(c._optional) <= MaxParams}

ArgLists == SeqsUpTo(Vals, MaxArgs)

\* explicit keywords: each key of Keys left out or bound to a value; the call
\* site writes them in KeyOrder, positional bindings are inserted after them
KeyOrder == <<"a", "b", "strict">>

KwDicts ==
    {SelectSeq([i \in DOMAIN KeyOrder |-> <<KeyOrder[i], f[KeyOrder[i]]>>],
               LAMBDA it : it[2] # Absent) : f \in [Keys -> {Absent} \cup Vals]}

\* Verb(*args, ctx=CTX, **kwargs)
Construct ==
    /\ vpc = "call"
    /\ LET r == __init__(cls, args, CTX, kwargs) IN
         /\ inst' = r[1]
         /\ err' = r[2]
    /\ vpc' = "done"
    /\ UNCHANGED <<cls, args, kwargs>>

\* ------------------------------------------------------------ verb_builder

\* functions s3/api.py defines
S3API == {"ls", "head", "get", "put", "cp"}

\* attributes of the sasquatch.s3 package that verbs may name
S3_ACTIONS == S3API

Symbols == {"ls", "head"}
ActionNames == {"ls", "head", "lv"}

\* dikt.get(key, default)
get(cfg, key, default) == IF cfg[key] = Absent THEN default ELSE cfg[key]

\* getattr(S3_ACTIONS, name, None); a name that is not a string raises TypeError
get_s3_action(name) ==
    IF name = None THEN [raised |-> "TypeError", value |-> None]
    ELSE IF name \in S3_ACTIONS THEN [raised |-> None, value |-> name]
    ELSE [raised |-> None, value |-> None]

Unregistered == [registered |-> FALSE]

\* add_verb(cls): VERBS[cls._symbol] = cls
add_verb(registry, c) == [registry EXCEPT ![c._symbol] = c]

\* verb_builder(name, **cfg): <<the registry afterwards, the exception raised>>
verb_builder(registry, name, cfg) ==
    IF cfg.symbol = Absent
    THEN <<registry, [type |-> "InvalidVerbDefinitionError", verb |-> name, attr |-> "symbol"]>>
    ELSE LET symbol == cfg.symbol
             action_name == get(cfg, "action", None)
             action == get_s3_action(action_name)
             _Verb == [registered |-> TRUE,
                       name |-> name,
                       _symbol |-> symbol,
                       _desc |-> get(cfg, "desc", None),
                       _action |-> action.value,
                       _hard_required |-> IF cfg.hard_required = Absent THEN <<>>
                                          ELSE <<cfg.hard_required>>,
                       _soft_required |-> IF cfg.soft_required = Absent THEN <<>>
                                          ELSE <<cfg.soft_required>>,
                       _optional |-> IF cfg.optional = Absent THEN <<>>
                                     ELSE <<cfg.optional>>,
                       _positional_order |-> IF cfg.positional_order = Absent THEN NoOrder
                                             ELSE {<<cfg.positional_order>>}]
         IN  IF action.raised # None
             THEN <<registry, [type |-> action.raised]>>
             ELSE IF action.value = None
             THEN <<registry, [type |-> "InvalidVerbDefinitionError", verb |-> name,
                               action |-> action_name]>>
             ELSE <<add_verb(registry, _Verb), NoErr>>

\* configurations handed to verb_builder; a parameter list is Absent or one name
BuilderConfigs ==
    [symbol : {Absent} \cup Symbols,
     action : {Absent} \cup ActionNames,
     desc : {Absent},
     hard_required : {Absent, "a"},
     soft_required : {Absent, "b"},
     optional : {Absent},
     positional_order : {Absent}]

VerbBuilder ==
    \E cfg \in BuilderConfigs :
        LET r == verb_builder(VERBS, "Verb", cfg) IN
            /\ VERBS' = r[1]
            /\ berr' = r[2]
            /\ bcall' = <<cfg>>

\* ----------------------------------------------------------------- s3/api.py
BucketNames == {"photos", "logs"}
ObjectKeys == {"k1", "k2"}
VersionIds == {"v1"}

\* api.ls(bucket=None): the client call it makes
ls(b) ==
    IF b = None THEN [op |-> "list_buckets", arg |-> None]
    ELSE [op |-> "list_objects", arg |-> b]

\* a page is a mapping from some of the record-bearing keys to record lists
BucketPages == {[k \in {} |-> <<>>]}
                 \cup {[k \in {"Buckets"} |-> [i \in DOMAIN l |-> [Name |-> l[i]]]] :
                          l \in SeqsUpTo(BucketNames, MaxRecs)}

ObjectPages == {[k \in {} |-> <<>>]}
                 \cup {[k \in {"Contents"} |-> [i \in DOMAIN l |-> [Key |-> l[i]]]] :
                          l \in SeqsUpTo(ObjectKeys, MaxRecs)}

VersionPages ==
    UNION {[D -> {[i \in DOMAIN l |-> [VersionId |-> l[i]]] : l \in SeqsUpTo(VersionIds, 1)}] :
              D \in SUBSET {"Versions", "DeleteMarkers"}}

\* --------------------------------------------------------- action/listing.py
\* result_type(result, ctx=...)
Result(kind, raw) == [kind |-> kind, raw |-> raw]

\* dict(_bucket=bucket, **obj)
tag_bucket(b, obj) == [_bucket |-> b, raw |-> obj]

\* outcome of resuming a generator: it yields a record, ends, or raises
\* (page: the page the yielded record was read from)
Yield(f, p, rec, cs) == [stat |-> "running", fetched |-> f, page |-> f, pos |-> p,
                         rec |-> <<rec>>, calls |-> cs, err |-> NoErr]
Stop(f, p, cs) == [stat |-> "exhausted", fetched |-> f, page |-> 0, pos |-> p, rec |-> <<>>,
                   calls |-> cs, err |-> NoErr]
Raise(f, p, cs, e) == [stat |-> "error", fetched |-> f, page |-> 0, pos |-> p, rec |-> <<>>,
                       calls |-> cs, err |-> [type |-> e]]

\* (variant: the next page is retrieved as soon as the last record of a page is yielded)
page_loop_readahead(pgs, key, f0, p0, cs) ==
    LET RECURSIVE resume(_, _)
        resume(f, p) ==
            IF f >= 1 /\ p < Len(pgs[f][key])
            THEN IF p + 1 = Len(pgs[f][key]) /\ f < Len(pgs) /\ key \in DOMAIN pgs[f + 1]
                 THEN [Yield(f, p + 1, pgs[f][key][p + 1], cs) EXCEPT !.fetched = f + 1, !.pos = 0]
                 ELSE Yield(f, p + 1, pgs[f][key][p + 1], cs)
            ELSE IF f = Len(pgs) THEN Stop(f, p, cs)
            ELSE IF key \notin DOMAIN pgs[f + 1] THEN Raise(f + 1, 0, cs, "KeyError")
            ELSE resume(f + 1, 0)
    IN  resume(f0, p0)

\* the nested loops `for page in s3api.ls(...): for x in page[key]: yield ...`,
\* resumed with f pages retrieved and p records of page f consumed
page_loop(pgs, key, f0, p0, cs) ==
    LET RECURSIVE resume(_, _)
        resume(f, p) ==
            IF f >= 1 /\ p < Len(pgs[f][key])
            THEN Yield(f, p + 1, pgs[f][key][p + 1], cs)
            ELSE IF f = Len(pgs) THEN Stop(f, p, cs)
            ELSE IF key \notin DOMAIN pgs[f + 1] THEN Raise(f + 1, 0, cs, "KeyError")
            ELSE resume(f + 1, 0)
    IN  resume(f0, p0)

\* ListAction.__list_buckets
ListAction__list_buckets(pgs, f, p, cs) ==
    page_loop(pgs, "Buckets", f, p, IF cs = <<>> THEN <<ls(None)>> ELSE cs)

\* ListAction._list_objects
_list_objects(pgs, b, f, p, cs) ==
    LET r == page_loop(pgs, "Contents", f, p, IF cs = <<>> THEN <<ls(b)>> ELSE cs)
    IN  [r EXCEPT !.rec = [i \in DOMAIN r.rec |-> tag_bucket(b, r.rec[i])]]

\* ListAction._process
ListAction_process(pgs, b, f, p, cs) ==
    LET objects == b # None
        r == IF objects THEN _list_objects(pgs, b, f, p, cs)
             ELSE ListAction__list_buckets(pgs, f, p, cs)
        result_type == IF objects THEN "object" ELSE "bucket"
    IN  [r EXCEPT !.rec = [i \in DOMAIN r.rec |-> Result(result_type, r.rec[i])]]

\* chain(page['Versions'] if 'Versions' in page else [], ... 'DeleteMarkers' ...)
versions_of(page) ==
    (IF "Versions" \in DOMAIN page THEN page["Versions"] ELSE <<>>)
        \o (IF "DeleteMarkers" \in DOMAIN page THEN page["DeleteMarkers"] ELSE <<>>)

\* ListVersionAction._process
ListVersionAction_process(pgs, b, f0, p0, cs) ==
    LET RECURSIVE resume(_, _)
        resume(f, p) ==
            IF f >= 1 /\ p < Len(versions_of(pgs[f]))
            THEN Yield(f, p + 1,
                       Result("object_version", tag_bucket(b, versions_of(pgs[f])[p + 1])), cs)
            ELSE IF f = Len(pgs) THEN Stop(f, p, cs)
            ELSE resume(f + 1, 0)
    IN  IF "lv" \notin S3API THEN Raise(f0, p0, cs, "AttributeError")
        ELSE resume(f0, p0)

\* ListReplicationAction.__list_buckets
ListReplicationAction__list_buckets(pgs, rp, f0, p0, cs0) ==
    LET RECURSIVE resume(_, _, _)
        resume(f, p, cs) ==
            IF f >= 1 /\ p < Len(pgs[f]["Buckets"])
            THEN LET bkt == pgs[f]["Buckets"][p + 1] IN
                 IF "get_bucket_replication" \notin S3API
                 THEN Raise(f, p, cs, "AttributeError")
                 ELSE LET cs2 == Append(cs, [op |-> "get_bucket_replication",
                                             arg |-> bkt.Name])
                      IN  IF rp[bkt.Name] # None
                          THEN Yield(f, p + 1, Result("bucket", bkt), cs2)
                          ELSE resume(f, p + 1, cs2)
            ELSE IF f = Len(pgs) THEN Stop(f, p, cs)
            ELSE IF "Buckets" \notin DOMAIN pgs[f + 1] THEN Raise(f + 1, 0, cs, "KeyError")
            ELSE resume(f + 1, 0, cs)
    IN  resume(f0, p0, IF cs0 = <<>> THEN <<ls(None)>> ELSE cs0)

\* attributes ListReplicationAction instances have
ListReplicationActionAttrs ==
    {"_name", "_process", "_extract_from_noun", "_context",
     "_ListReplicationAction__list_buckets", "_ListReplicationAction__list_objects"}

\* ListReplicationAction._process
ListReplicationAction_process(pgs, rp, b, f, p, cs) ==
    IF b # None
    THEN IF "_list_objects" \notin ListReplicationActionAttrs
         THEN Raise(f, p, cs, "AttributeError")
         ELSE LET r == _list_objects(pgs, b, f, p, cs)
              IN  [r EXCEPT !.rec = [i \in DOMAIN r.rec |-> Result("object", r.rec[i])]]
    ELSE LET r == ListReplicationAction__list_buckets(pgs, rp, f, p, cs)
         IN  [r EXCEPT !.rec = [i \in DOMAIN r.rec |-> Result("bucket", r.rec[i])]]

NoRepl == [b \in BucketNames |-> None]

\* the consumer asks the generator for its next record
Resume(r) ==
    /\ lstat' = r.stat
    /\ lerr' = r.err
    /\ fetched' = r.fetched
    /\ pos' = r.pos
    /\ calls' = r.calls
    /\ out' = out \o r.rec
    /\ lastPage' = IF r.rec # <<>> THEN r.page ELSE lastPage
    /\ UNCHANGED <<laction, bucket, pages, repl>>

PullLs ==
    /\ laction = "ls" /\ lstat = "running"
    /\ Resume(ListAction_process(pages, bucket, fetched, pos, calls))

PullLv ==
    /\ laction = "lv" /\ lstat = "running"
    /\ Resume(ListVersionAction_process(pages, bucket, fetched, pos, calls))

PullLr ==
    /\ laction = "lr" /\ lstat = "running"
    /\ Resume(ListReplicationAction_process(pages, repl, bucket, fetched, pos, calls))

\* the consumer drops the generator before it is exhausted
Abandon ==
    /\ lstat = "running"
    /\ lstat' = "stopped"
    /\ UNCHANGED <<laction, bucket, pages, repl, lerr, fetched, pos, out, calls, lastPage>>

\* ----------------------------------------------------------- specifications
InitVerb ==
    /\ cls \in VerbClasses
    /\ args \in ArgLists
    /\ kwargs \in KwDicts
    /\ vpc = "call"
    /\ inst = NoInst
    /\ err = NoErr
    \* no verb_builder call, no listing pipeline
    /\ VERBS = [s \in Symbols |-> Unregistered]
    /\ bcall = <<>>
    /\ berr = NoErr
    /\ laction = "ls" /\ bucket = None /\ pages = <<>> /\ repl = NoRepl
    /\ lstat = "idle" /\ lerr = NoErr /\ fetched = 0 /\ pos = 0 /\ out = <<>>
    /\ calls = <<>> /\ lastPage = 0

NextVerb == Construct /\ UNCHANGED <<builderVars, listVars>>

SpecVerb == InitVerb /\ [][NextVerb]_vars

\* the registry before any verb_builder call; no construction, no listing pipeline
InitBuilder ==
    /\ VERBS = [s \in Symbols |-> Unregistered]
    /\ bcall = <<>>
    /\ berr = NoErr
    /\ cls = [_hard_required |-> <<>>, _soft_required |-> <<>>, _optional |-> <<>>,
              _positional_order |-> NoOrder]
    /\ args = <<>> /\ kwargs = <<>> /\ vpc = "idle" /\ inst = NoInst /\ err = NoErr
    /\ laction = "ls" /\ bucket = None /\ pages = <<>> /\ repl = NoRepl
    /\ lstat = "idle" /\ lerr = NoErr /\ fetched = 0 /\ pos = 0 /\ out = <<>>
    /\ calls = <<>> /\ lastPage = 0

NextBuilder == VerbBuilder /\ UNCHANGED <<verbVars, listVars>>

SpecBuilder == InitBuilder /\ [][NextBuilder]_vars

\* bucket is kwargs.get('bucket') as _extract_from_noun leaves it; pages are what
\* the backend returns for the call the action issues
InitListing ==
    /\ laction \in {"ls", "lv", "lr"}
    /\ bucket \in {None} \cup BucketNames
    /\ laction = "lv" => bucket # None
    /\ pages \in SeqsUpTo(IF laction = "lv" THEN VersionPages
                          ELSE IF bucket = None THEN BucketPages ELSE ObjectPages, MaxPages)
    /\ repl \in [BucketNames -> {None, "cfg"}]
    /\ laction # "lr" => repl = NoRepl
    /\ lstat = "running"
    /\ lerr = NoErr
    /\ fetched = 0 /\ pos = 0 /\ out = <<>> /\ calls = <<>> /\ lastPage = 0
    \* no construction, no verb_builder call
    /\ cls = [_hard_required |-> <<>>, _soft_required |-> <<>>, _optional |-> <<>>,
              _positional_order |-> NoOrder]
    /\ args = <<>> /\ kwargs = <<>> /\ vpc = "idle" /\ inst = NoInst /\ err = NoErr
    /\ VERBS = [s \in Symbols |-> Unregistered]
    /\ bcall = <<>>
    /\ berr = NoErr

NextListing == (PullLs \/ PullLv \/ PullLr \/ Abandon) /\ UNCHANGED <<verbVars, builderVars>>

SpecListing == InitListing /\ [][NextListing]_vars

\* ===================================================================== claims
Done == vpc = "done"
ElemSet(l) == {l[i] : i \in DOMAIN l}
NoRepeat(l) == \A i, j \in DOMAIN l : l[i] = l[j] => i = j
Order == positional_order(cls)
Declared == ElemSet(cls._hard_required) \cup ElemSet(cls._soft_required)
                \cup ElemSet(cls._optional)
ExplicitKeys == ElemSet(keys(kwargs))
Filled == {Order[i] : i \in 1..Min(Len(args), Len(Order))}
Bound == ExplicitKeys \cup Filled

C2_Original ==
    (Done /\ Len(args) <= Len(Order) /\ ExplicitKeys \ Declared # {}) =>
        (err.type = "ExtraKeywordError" /\ ~inst.ok)

StrictOn == HasKey(kwargs, "strict")
Required == cls._hard_required \o (IF StrictOn THEN cls._soft_required ELSE <<>>)
Unmet(i) == Required[i] \notin Bound \/ \E j \in 1..(i - 1) : Required[j] = Required[i]
FirstUnmet == Required[CHOOSE i \in DOMAIN Required : Unmet(i) /\ \A j \in 1..(i - 1) : ~Unmet(j)]

\* C3 (as amended): when the positional count is within the arity limit, every
\* bound name other than `strict` is a declared parameter and some hard-required
\* parameter is unbound, construction fails with MissingKeywordError naming the
\* first name of the required list (hard-required, then soft-required under
\* strict) that is unbound or repeats an earlier name of that list.
C3_NamesFirstUnmet ==
    (/\ Done
     /\ Len(args) <= Len(Order)
     /\ (Bound \ {"strict"}) \subseteq Declared
     /\ \E p \in ElemSet(cls._hard_required) : p \notin Bound)
    => (err.type = "MissingKeywordError" /\ err.keyword = FirstUnmet /\ ~inst.ok)

C3_Witness ==
    /\ Done
    /\ err.type = "MissingKeywordError"
    /\ \E p \in ElemSet(cls._hard_required) : p \notin Bound /\ p # err.keyword

\* C3 (as stated): every unbound hard-required parameter p makes construction
\* fail with MissingKeywordError naming p, whatever else is supplied.
C3_Original ==
    Done => \A p \in ElemSet(cls._hard_required) :
                p \notin Bound => (err.type = "MissingKeywordError" /\ err.keyword = p)

C4_Pre ==
    /\ args = <<>>
    /\ ElemSet(cls._hard_required) \subseteq ExplicitKeys
    /\ ExplicitKeys \subseteq ElemSet(cls._hard_required) \cup ElemSet(cls._optional)

\* C4 (as amended): for a verb whose hard-required list repeats no name,
\* keywords that are exactly the hard-required names plus some optional names
\* (no positional arguments) construct an instance, and its `missing` view is
\* the soft-required names that were not supplied, in declared order.
C4_MissingIsUnsuppliedSoft ==
    (Done /\ C4_Pre /\ NoRepeat(cls._hard_required)) =>
        /\ inst.ok
        /\ missing(cls, inst) =
              SelectSeq(cls._soft_required, LAMBDA k : k \notin ExplicitKeys)

C4_Witness ==
    /\ Done /\ C4_Pre /\ NoRepeat(cls._hard_required)
    /\ cls._hard_required # <<>>
    /\ inst.ok
    /\ missing(cls, inst) # <<>>

\* C4 (as stated): such keywords always construct an instance whose `missing`
\* view is empty.
C4_Original ==
    (Done /\ C4_Pre) => (inst.ok /\ missing(cls, inst) = <<>>)

\* C5 (as stated): on a constructed instance needs is hard-required followed by
\* soft-required, and wants returns needs followed by optional.
C5_Original ==
    (Done /\ inst.ok) =>
        /\ needs(cls) = cls._hard_required \o cls._soft_required
        /\ wants(cls).raised = None
        /\ wants(cls).value = needs(cls) \o cls._optional

Flatten(pgs, key) ==
    LET RECURSIVE cat(_)
        cat(i) == IF i > Len(pgs) THEN <<>>
                  ELSE (IF key \in DOMAIN pgs[i] THEN pgs[i][key] ELSE <<>>) \o cat(i + 1)
    IN  cat(1)

Drained == lstat \in {"exhausted", "error"}

\* C6 (as stated): ls with a bucket issues list_objects on that bucket and yields
\* object records tagged with it; ls without a bucket issues list_buckets and,
\* once drained, has yielded one bucket record per listed bucket, in page order.
C6_Original ==
    laction = "ls" =>
        /\ bucket # None =>
              /\ calls \in {<<>>, <<[op |-> "list_objects", arg |-> bucket]>>}
              /\ \A i \in DOMAIN out :
                    out[i].kind = "object" /\ out[i].raw._bucket = bucket
        /\ bucket = None =>
              /\ calls \in {<<>>, <<[op |-> "list_buckets", arg |-> None]>>}
              /\ Drained =>
                    out = [i \in DOMAIN Flatten(pages, "Buckets") |->
                              [kind |-> "bucket", raw |-> Flatten(pages, "Buckets")[i]]]

\* C7 (as stated): no listing ends in an error because a page lacks a
\* record-bearing key.
C7_Original == lstat = "error" => lerr.type # "KeyError"

\* C8 (as stated): lr without a bucket, once drained, has issued one
\* replication query per listed bucket and yielded one bucket record per bucket
\* whose replication configuration is non-null.
C8_Original ==
    (laction = "lr" /\ bucket = None /\ Drained) =>
        LET bs == Flatten(pages, "Buckets") IN
            /\ Len(SelectSeq(calls, LAMBDA c : c.op = "get_bucket_replication")) = Len(bs)
            /\ Len(out) = Len(SelectSeq(bs, LAMBDA b : repl[b.Name] # None))
            /\ \A i \in DOMAIN out : out[i].kind = "bucket"

\* C9 (as amended): pages are retrieved only while the consumer is pulling; when
\* a pull returns a record, the pages retrieved so far are exactly those up to
\* the page holding that record (no read-ahead); once the consumer has stopped,
\* no further page is retrieved. A single pull may retrieve several pages when
\* pages carry no record.
C9_NoReadAhead ==
    [][/\ Len(out') > Len(out) => fetched' = lastPage'
       /\ fetched' # fetched => lstat = "running"
       /\ lstat = "stopped" => fetched' = fetched]_vars

C9_Witness ==
    /\ lstat = "stopped"
    /\ out # <<>>
    /\ lastPage >= 2
    /\ fetched = lastPage
    /\ fetched < Len(pages)

\* C9 (as stated, for pulls that raise no error): the pages retrieved never
\* exceed the index of the page holding the last record pulled plus one, and
\* nothing is retrieved after the consumer stops.
C9_Original ==
    [][/\ lstat' # "error" => fetched' <= lastPage' + 1
       /\ lstat = "stopped" => fetched' = fetched]_vars

\* C10 (as stated): a verb_builder call without symbol, without action or with an
\* unknown action fails with InvalidVerbDefinitionError, and every registered
\* symbol maps to a class with a resolved action.
C10_Original ==
    /\ (bcall # <<>> /\ (bcall[1].symbol = Absent \/ bcall[1].action \notin S3_ACTIONS)) =>
          berr.type = "InvalidVerbDefinitionError"
    /\ \A s \in Symbols : VERBS[s].registered => VERBS[s]._action \in S3_ACTIONS

====
